---- MODULE Spec2Model ----
(***************************************************************************)
(* eol.c: set or scan the end-of-line characters of files.                 *)
(*                                                                         *)
(* The model follows the default build of eol.c (neither MS_WIN32_COMPILER *)
(* nor GNU_WIN32_COMPILER defined).  main() is a process whose position is *)
(* pc; set_eol() and scan_eol() advance one iteration of their read loop   *)
(* per step.  The C library (fopen, getc, putc, ungetc, fclose, rename) is *)
(* modelled by operators over the record io: a file system, the table of   *)
(* FILE objects, the bytes standard input has delivered and the bytes      *)
(* written to standard output.  A library call on a FILE pointer that is   *)
(* null or already closed is undefined behaviour; its outcomes are an      *)
(* abnormal termination, an error return, or (for getc) an arbitrary byte. *)
(*                                                                         *)
(* The specifications share the actions of set_eol and scan_eol:           *)
(*   Spec          main() run on a command line and a file system;         *)
(*   SpecFiles     main() run on one operation flag and a list of files;   *)
(*   SpecPass      set_eol and scan_eol applied, alone and chained, to     *)
(*                 every input byte sequence up to MaxLen;                 *)
(*   SpecPassFair  SpecPass with the program always taking its next step.  *)
(*   SpecName      main() building the temporary name of one input file.   *)
(***************************************************************************)
EXTENDS Integers, Sequences, FiniteSets, TLC

VARIABLES
    argv,            \* argv[1..argc-1], each argument a sequence of characters
    pc,              \* position of the process
    ret_pc,          \* where set_eol / scan_eol return to
    i,               \* main: loop index
    err,             \* main: error indicator returned as the exit code
    verbose,         \* main: verbosity
    argcnt,          \* main: 1 + number of option arguments
    fname,           \* main: current input file name (<<>> is the null pointer)
    eol_fname,       \* main: temporary output file name
    result,          \* main: result of rename()
    operation,       \* global
    output_format,   \* global
    cnt_eol,         \* global
    cnt_msdos,       \* global
    cnt_mac,         \* global
    cnt_unix,        \* global
    cnt_grand_total, \* global
    file_in,         \* global FILE *
    file_out,        \* global FILE *
    p_file_in,       \* set_eol / scan_eol: parameter file_in (shadows the global)
    p_file_out,      \* set_eol: parameter file_out (shadows the global)
    nl,              \* set_eol / scan_eol: local line-end counter
    io,              \* the C library and the file system
    stderr,          \* messages written to the diagnostic stream
    exited,          \* <<>> while running, <<code>> once main has returned
    pass,            \* history of the running pass: positions read and counted
    fs0,             \* history: the file system main started with
    plan,            \* SpecPass: the passes to run
    step,            \* SpecPass: index of the pass being run
    results          \* SpecPass: what each finished pass read, wrote and counted

vars == <<argv, pc, ret_pc, i, err, verbose, argcnt, fname, eol_fname, result,
          operation, output_format, cnt_eol, cnt_msdos, cnt_mac, cnt_unix,
          cnt_grand_total, file_in, file_out, p_file_in, p_file_out, nl, io, stderr, exited, pass,
          fs0, plan, step, results>>

mainLocals == <<i, err, verbose, argcnt, fname, eol_fname, result>>
tally == <<cnt_msdos, cnt_mac, cnt_unix>>
harness == <<plan, step, results>>

----------------------------------------------------------------------------
(* Bounds of the model. *)

\* longest input byte sequence given to set_eol / scan_eol in SpecPass
MaxLen == 4
\* most command-line arguments after the program name
MaxArgs == 3
\* most file arguments of a command line of SpecFiles
MaxFiles == 3
\* most bytes standard input delivers before end-of-file
MaxStdin == 2
\* most bytes a getc on a closed FILE yields before it reports end-of-file
MaxUndef == 1
\* longest path of an input file in SpecName
MaxPath == 520

----------------------------------------------------------------------------
(* Program constants. *)

ch_CR == 13
ch_LF == 10
EOF == -1

EOL_NO_OPERATION == 0
EOL_SET_OPERATION == 1
EOL_SCAN_OPERATION == 2

EOL_NO_OUTPUT_FORMAT == 0
EOL_UNIX_OUTPUT_FORMAT == 1
EOL_MSDOS_OUTPUT_FORMAT == 2
EOL_MAC_OUTPUT_FORMAT == 3

\* FILE pointers: the null pointer, the two standard streams; fopen returns
\* pointers from 3 on.
NULL == 0
stdin == 1
stdout == 2

\* char eol_fname[512]
sizeof_eol_fname == 512

eolfextension == <<".", "E", "O", "L", "_", "T", "E", "M", "P", "_", "F", "I", "L", "E">>

\* end of a C string
NUL == "NUL"
\* the null char pointer
NullName == <<>>

----------------------------------------------------------------------------
(* Input domains. *)

\* CR, LF and two ordinary bytes ('a', 'b')
Bytes == {ch_CR, ch_LF, 97, 98}

SeqsUpTo(S, n) == UNION {[1..k -> S] : k \in 0..n}

Inputs == SeqsUpTo(Bytes, MaxLen)

Formats == {EOL_UNIX_OUTPUT_FORMAT, EOL_MSDOS_OUTPUT_FORMAT, EOL_MAC_OUTPUT_FORMAT}

\* file names on the command line
Files == {<<"f">>, <<"g">>}

\* what a named file holds when main starts
FileContents == {<<>>, <<97, ch_CR, ch_LF, ch_CR>>}

\* command-line arguments: the five options, an unknown option, a lone '-',
\* and file names
ArgTokens == {<<"-", "d">>, <<"-", "m">>, <<"-", "u">>, <<"-", "s">>,
              <<"-", "v">>, <<"-", "x">>, <<"-">>} \cup Files

TempName(name) == name \o eolfextension

Absent == [exists |-> FALSE, data |-> <<>>]
Present(d) == [exists |-> TRUE, data |-> d]

----------------------------------------------------------------------------
(* The C library.  Every call yields a set of outcomes                     *)
(*   [ok, ret, at, io]                                                     *)
(* ok = FALSE is an abnormal termination inside the call; ret is the       *)
(* value returned; at is the position in the stream of the byte a getc     *)
(* returned (0 when there is none); io is the library state afterwards.    *)

Ret(r, s) == [ok |-> TRUE, ret |-> r, at |-> 0, io |-> s]
RetAt(r, a, s) == [ok |-> TRUE, ret |-> r, at |-> a, io |-> s]
Abort(s) == [ok |-> FALSE, ret |-> EOF, at |-> 0, io |-> s]

Logged(s, c) == [s EXCEPT !.calls = Append(@, c)]

\* h points to a FILE that fopen returned (or a standard stream) and that
\* has not been closed
Valid(s, h) == h \in DOMAIN s.files /\ s.files[h].open

\* the next FILE pointer fopen hands out
NextFile(s) == Cardinality(DOMAIN s.files) + 1

StdFiles ==
    (stdin :> [kind |-> "stdin", path |-> NullName, mode |-> "r", pos |-> 0,
               unget |-> <<>>, open |-> TRUE])
    @@ (stdout :> [kind |-> "stdout", path |-> NullName, mode |-> "w", pos |-> 0,
                   unget |-> <<>>, open |-> TRUE])

\* fopen(path, "rb") fails when the file is absent and may fail (access,
\* descriptor limit) when it is present; fopen(path, "wb") creates or
\* truncates the file, or fails (directory not writable).
fopen(s, path, mode) ==
    LET h == NextFile(s)
        f == [kind |-> "file", path |-> path, mode |-> mode, pos |-> 0,
              unget |-> <<>>, open |-> TRUE]
        failed == Ret(NULL, Logged(s, [call |-> "fopen", path |-> path, mode |-> mode, ok |-> FALSE]))
        opened(t) == Ret(h, Logged([t EXCEPT !.files = @ @@ (h :> f)],
                                   [call |-> "fopen", path |-> path, mode |-> mode, ok |-> TRUE]))
    IN  IF mode = "rb"
        THEN IF s.fs[path].exists THEN {opened(s), failed} ELSE {failed}
        ELSE {opened([s EXCEPT !.fs[path] = Present(<<>>)]), failed}

\* getc on a null or closed FILE is undefined: the process dies, the call
\* reports end-of-file, or (closed FILE, stale buffer) it yields some byte.
getc_undefined(s, h) ==
    {Abort(s), Ret(EOF, s)}
    \cup IF h \in DOMAIN s.files /\ s.files[h].pos < MaxUndef
         THEN {Ret(b, [s EXCEPT !.files[h].pos = @ + 1]) : b \in Bytes}
         ELSE {}

getc(s, h) ==
    IF ~Valid(s, h) THEN getc_undefined(s, h)
    ELSE LET f == s.files[h] IN
         IF f.unget # <<>>
         THEN {RetAt(Head(f.unget), f.pos, [s EXCEPT !.files[h].unget = <<>>])}
         ELSE IF f.kind = "stdin"
         THEN {Ret(EOF, s)}
              \cup IF Len(s.stdin) < MaxStdin
                   THEN {RetAt(b, f.pos + 1,
                               [s EXCEPT !.stdin = Append(@, b), !.files[h].pos = @ + 1])
                         : b \in Bytes}
                   ELSE {}
         ELSE IF f.kind = "file" /\ f.mode = "rb" /\ s.fs[f.path].exists
                 /\ f.pos < Len(s.fs[f.path].data)
         THEN {RetAt(s.fs[f.path].data[f.pos + 1], f.pos + 1,
                     [s EXCEPT !.files[h].pos = @ + 1])}
         ELSE {Ret(EOF, s)}

ungetc(s, c, h) ==
    IF ~Valid(s, h) THEN {Abort(s), Ret(EOF, s)}
    ELSE {Ret(c, [s EXCEPT !.files[h].unget = <<c>>])}

putc(s, c, h) ==
    IF ~Valid(s, h) THEN {Abort(s), Ret(EOF, s)}
    ELSE LET f == s.files[h] IN
         IF f.kind = "stdout" THEN {Ret(c, [s EXCEPT !.stdout = Append(@, c)])}
         ELSE IF f.kind = "file" /\ f.mode = "wb" /\ s.fs[f.path].exists
         THEN {Ret(c, [s EXCEPT !.fs[f.path].data = Append(@, c)])}
         ELSE {Ret(EOF, s)}

fclose(s, h) ==
    IF ~Valid(s, h) THEN {Abort(s), Ret(EOF, Logged(s, [call |-> "fclose", path |-> NullName, mode |-> "", ok |-> FALSE]))}
    ELSE {Ret(0, Logged([s EXCEPT !.files[h].open = FALSE, !.files[h].pos = 0,
                                  !.files[h].unget = <<>>],
                        [call |-> "fclose", path |-> s.files[h].path, mode |-> s.files[h].mode, ok |-> TRUE]))}

\* rename(old, new) replaces new by old in one step, or fails and changes
\* nothing; it fails when old names no file or new is the null pointer.
rename(s, old, new) ==
    LET failed == Ret(EOF, Logged(s, [call |-> "rename", path |-> old, mode |-> "", ok |-> FALSE]))
        done == Ret(0, Logged([s EXCEPT !.fs[new] = s.fs[old], !.fs[old] = Absent],
                              [call |-> "rename", path |-> old, mode |-> "", ok |-> TRUE]))
    IN  IF old \in DOMAIN s.fs /\ new \in DOMAIN s.fs /\ s.fs[old].exists
        THEN {done, failed}
        ELSE {failed}

----------------------------------------------------------------------------
(* set_eol() and scan_eol(): one iteration of the read loop.  An iteration *)
(* yields a set of outcomes                                                *)
(*   [status, io, nl, top, counted, msdos, mac, unix]                      *)
(* status: "loop" (next iteration), "return" (the function returns nl) or  *)
(* "abort" (abnormal termination inside a library call); top: the stream   *)
(* position of the byte read at the top of the loop (<<>> at end-of-file); *)
(* counted: the positions of the bytes for which nl was incremented.       *)

Iter(st, s, n, top, counted, t) ==
    [status |-> st, io |-> s, nl |-> n, top |-> top, counted |-> counted,
     msdos |-> t.msdos, mac |-> t.mac, unix |-> t.unix]

\* variant: the MS-DOS case writes its two bytes in the wrong order
EolBytes_Swapped(fmt, ch) ==
    CASE fmt = EOL_MSDOS_OUTPUT_FORMAT -> <<ch_LF, ch_CR>>
      [] fmt = EOL_MAC_OUTPUT_FORMAT -> <<ch_CR>>
      [] fmt = EOL_UNIX_OUTPUT_FORMAT -> <<ch_LF>>
      [] OTHER -> <<ch>>

\* the bytes written by switch(output_format)
EolBytes(fmt, ch) ==
    CASE fmt = EOL_MSDOS_OUTPUT_FORMAT -> <<ch_CR, ch_LF>>
      [] fmt = EOL_MAC_OUTPUT_FORMAT -> <<ch_CR>>
      [] fmt = EOL_UNIX_OUTPUT_FORMAT -> <<ch_LF>>
      [] OTHER -> <<ch>>

\* consecutive putc calls; their return values are not looked at
RECURSIVE puts(_, _, _)
puts(s, bs, h) ==
    IF bs = <<>> THEN {Ret(0, s)}
    ELSE UNION {IF p.ok THEN puts(p.io, Tail(bs), h) ELSE {p} : p \in putc(s, Head(bs), h)}

\* variant: an LF after a CR is pushed back like any other byte
SetAfterCR_PushBackLF(ch) ==
    CASE ch = EOF -> "break"
      [] OTHER -> "unget"

\* set_eol: what is done with the byte read after a CR
SetAfterCR(ch) ==
    CASE ch = ch_LF -> "eat"
      [] ch = EOF -> "break"
      [] OTHER -> "unget"

\* set_eol: the byte after a CR is read and eaten, or pushed back
set_eol_peek(s, n, top, fin, t) ==
    UNION {IF ~q.ok THEN {Iter("abort", q.io, n, top, top, t)}
           ELSE IF SetAfterCR(q.ret) = "eat" THEN {Iter("loop", q.io, n, top, top, t)}
           ELSE IF SetAfterCR(q.ret) = "break" THEN {Iter("return", q.io, n, top, top, t)}
           ELSE {Iter(IF u.ok THEN "loop" ELSE "abort", u.io, n, top, top, t)
                 : u \in ungetc(q.io, q.ret, fin)}
           : q \in getc(s, fin)}

set_eol_iter(s, n, fin, fout, fmt, t) ==
    UNION {IF ~g.ok THEN {Iter("abort", g.io, n, <<>>, <<>>, t)}
           ELSE IF g.ret = EOF THEN {Iter("return", g.io, n, <<>>, <<>>, t)}
           ELSE IF g.ret = ch_CR
           THEN UNION {IF ~p.ok THEN {Iter("abort", p.io, n + 1, <<g.at>>, <<g.at>>, t)}
                       ELSE set_eol_peek(p.io, n + 1, <<g.at>>, fin, t)
                       : p \in puts(g.io, EolBytes(fmt, g.ret), fout)}
           ELSE IF g.ret = ch_LF
           THEN {Iter(IF p.ok THEN "loop" ELSE "abort", p.io, n + 1, <<g.at>>, <<g.at>>, t)
                 : p \in puts(g.io, EolBytes(fmt, g.ret), fout)}
           ELSE {Iter(IF p.ok THEN "loop" ELSE "abort", p.io, n, <<g.at>>, <<>>, t)
                 : p \in putc(g.io, g.ret, fout)}
           : g \in getc(s, fin)}

\* scan_eol: the byte after a CR decides between MS-DOS and Macintosh
ScanAfterCR(ch, t) ==
    IF ch = ch_LF THEN [t EXCEPT !.msdos = @ + 1] ELSE [t EXCEPT !.mac = @ + 1]

\* variant: the byte read after a CR is always pushed back, an LF too
scan_eol_iter_PushBack(s, n, fin, t) ==
    UNION {IF ~g.ok THEN {Iter("abort", g.io, n, <<>>, <<>>, t)}
           ELSE IF g.ret = EOF THEN {Iter("return", g.io, n, <<>>, <<>>, t)}
           ELSE IF g.ret = ch_CR
           THEN UNION {IF ~q.ok THEN {Iter("abort", q.io, n + 1, <<g.at>>, <<g.at>>, t)}
                       ELSE IF q.ret = EOF
                       THEN {Iter("return", q.io, n + 1, <<g.at>>, <<g.at>>,
                                  ScanAfterCR(q.ret, t))}
                       ELSE {Iter(IF u.ok THEN "loop" ELSE "abort", u.io, n + 1,
                                  <<g.at>>, <<g.at>>, ScanAfterCR(q.ret, t))
                             : u \in ungetc(q.io, q.ret, fin)}
                       : q \in getc(g.io, fin)}
           ELSE IF g.ret = ch_LF
           THEN {Iter("loop", g.io, n + 1, <<g.at>>, <<g.at>>, [t EXCEPT !.unix = @ + 1])}
           ELSE {Iter("loop", g.io, n, <<g.at>>, <<>>, t)}
           : g \in getc(s, fin)}

scan_eol_iter(s, n, fin, t) ==
    UNION {IF ~g.ok THEN {Iter("abort", g.io, n, <<>>, <<>>, t)}
           ELSE IF g.ret = EOF THEN {Iter("return", g.io, n, <<>>, <<>>, t)}
           ELSE IF g.ret = ch_CR
           THEN {IF ~q.ok THEN Iter("abort", q.io, n + 1, <<g.at>>, <<g.at>>, t)
                 ELSE Iter(IF q.ret = EOF THEN "return" ELSE "loop", q.io, n + 1,
                           <<g.at>>, <<g.at>>, ScanAfterCR(q.ret, t))
                 : q \in getc(g.io, fin)}
           ELSE IF g.ret = ch_LF
           THEN {Iter("loop", g.io, n + 1, <<g.at>>, <<g.at>>, [t EXCEPT !.unix = @ + 1])}
           ELSE {Iter("loop", g.io, n, <<g.at>>, <<>>, t)}
           : g \in getc(s, fin)}

Tally == [msdos |-> cnt_msdos, mac |-> cnt_mac, unix |-> cnt_unix]

AfterIter(o, self) ==
    /\ io' = o.io
    /\ nl' = o.nl
    /\ cnt_msdos' = o.msdos
    /\ cnt_mac' = o.mac
    /\ cnt_unix' = o.unix
    /\ pass' = [top_at |-> pass.top_at \o o.top, nl_at |-> pass.nl_at \o o.counted]
    /\ pc' = CASE o.status = "loop" -> self
               [] o.status = "return" -> ret_pc
               [] OTHER -> "aborted"
    /\ UNCHANGED <<argv, ret_pc, mainLocals, operation, output_format, cnt_eol,
                   cnt_grand_total, file_in, file_out, p_file_in, p_file_out,
                   stderr, exited, fs0, harness>>

set_eol ==
    /\ pc = "set_eol"
    /\ \E o \in set_eol_iter(io, nl, p_file_in, p_file_out, output_format, Tally) :
          AfterIter(o, "set_eol")

scan_eol ==
    /\ pc = "scan_eol"
    /\ \E o \in scan_eol_iter(io, nl, p_file_in, Tally) : AfterIter(o, "scan_eol")

----------------------------------------------------------------------------
(* main() *)

argc == Len(argv) + 1

\* argv[i][k-1]: the k-th character of a C string, NUL past its end
Char(a, k) == IF k <= Len(a) THEN a[k] ELSE NUL

\* what eol_fname holds before strcpy has written it: some name, of no file
\* of the model's file system
IndeterminateName == <<"?">>

\* a FILE * parameter that the caller passed no argument for
IndeterminatePointers == {NULL, stdin, stdout}

Msg(m, f, n) == [msg |-> m, file |-> f, n |-> n]

IsOption(a) == Char(a, 1) = "-" /\ Char(a, 2) # NUL

\* variant: the counters of the previous source are kept
ScanTallyKept == Tally

\* the line-end counters as the caller sets them before scan_eol
ScanTallyReset == [msdos |-> 0, mac |-> 0, unix |-> 0]

\* variant: an unknown option is not a usage error
UsageError_IgnoresFlags ==
    \/ operation = EOL_NO_OPERATION
    \/ (operation = EOL_SET_OPERATION /\ output_format = EOL_NO_OUTPUT_FORMAT)

\* the usage test
UsageError ==
    \/ err # 0
    \/ operation = EOL_NO_OPERATION
    \/ (operation = EOL_SET_OPERATION /\ output_format = EOL_NO_OUTPUT_FORMAT)

\* the per-format lines of a scan report
ScanReport(name) ==
    <<Msg("found_total", name, cnt_eol')>>
    \o (IF cnt_msdos > 0 THEN <<Msg("found_msdos", name, cnt_msdos)>> ELSE <<>>)
    \o (IF cnt_mac > 0 THEN <<Msg("found_mac", name, cnt_mac)>> ELSE <<>>)
    \o (IF cnt_unix > 0 THEN <<Msg("found_unix", name, cnt_unix)>> ELSE <<>>)

Verbose(m) == IF verbose # 0 THEN <<m>> ELSE <<>>

\* variant: the first operation and format given are kept
ParseArg_FirstWins ==
    /\ pc = "parse"
    /\ i < argc
    /\ LET c == Char(argv[i], 2) IN
       IF IsOption(argv[i])
       THEN /\ argcnt' = argcnt + 1
            /\ operation' = CASE operation # EOL_NO_OPERATION -> operation
                              [] c \in {"d", "D", "m", "M", "u", "U"} -> EOL_SET_OPERATION
                              [] c \in {"s", "S"} -> EOL_SCAN_OPERATION
                              [] OTHER -> operation
            /\ output_format' = CASE output_format # EOL_NO_OUTPUT_FORMAT -> output_format
                                  [] c \in {"d", "D"} -> EOL_MSDOS_OUTPUT_FORMAT
                                  [] c \in {"m", "M"} -> EOL_MAC_OUTPUT_FORMAT
                                  [] c \in {"u", "U", "s", "S"} -> EOL_UNIX_OUTPUT_FORMAT
                                  [] OTHER -> output_format
            /\ verbose' = IF c \in {"v", "V"} THEN verbose + 1 ELSE verbose
            /\ err' = IF c \in {"d", "D", "m", "M", "u", "U", "s", "S", "v", "V"}
                      THEN err ELSE err + 1
       ELSE UNCHANGED <<argcnt, operation, output_format, verbose, err>>
    /\ i' = i + 1
    /\ UNCHANGED <<argv, pc, ret_pc, fname, eol_fname, result, cnt_eol, tally,
                   cnt_grand_total, file_in, file_out, p_file_in, p_file_out, nl,
                   io, stderr, exited, pass, fs0, harness>>

\* one turn of the option loop
ParseArg ==
    /\ pc = "parse"
    /\ i < argc
    /\ LET c == Char(argv[i], 2) IN
       IF IsOption(argv[i])
       THEN /\ argcnt' = argcnt + 1
            /\ operation' = CASE c \in {"d", "D", "m", "M", "u", "U"} -> EOL_SET_OPERATION
                              [] c \in {"s", "S"} -> EOL_SCAN_OPERATION
                              [] OTHER -> operation
            /\ output_format' = CASE c \in {"d", "D"} -> EOL_MSDOS_OUTPUT_FORMAT
                                  [] c \in {"m", "M"} -> EOL_MAC_OUTPUT_FORMAT
                                  [] c \in {"u", "U", "s", "S"} -> EOL_UNIX_OUTPUT_FORMAT
                                  [] OTHER -> output_format
            /\ verbose' = IF c \in {"v", "V"} THEN verbose + 1 ELSE verbose
            /\ err' = IF c \in {"d", "D", "m", "M", "u", "U", "s", "S", "v", "V"}
                      THEN err ELSE err + 1
       ELSE UNCHANGED <<argcnt, operation, output_format, verbose, err>>
    /\ i' = i + 1
    /\ UNCHANGED <<argv, pc, ret_pc, fname, eol_fname, result, cnt_eol, tally,
                   cnt_grand_total, file_in, file_out, p_file_in, p_file_out, nl,
                   io, stderr, exited, pass, fs0, harness>>

\* the usage message and return 1
Usage ==
    /\ pc = "parse"
    /\ i >= argc
    /\ UsageError
    /\ stderr' = Append(stderr, Msg("usage", NullName, 0))
    /\ exited' = <<1>>
    /\ pc' = "exit"
    /\ UNCHANGED <<argv, ret_pc, mainLocals, operation, output_format, cnt_eol,
                   tally, cnt_grand_total, file_in, file_out, p_file_in,
                   p_file_out, nl, io, pass, fs0, harness>>

\* past the usage test: standard input, or the loop over the arguments
Begin ==
    /\ pc = "parse"
    /\ i >= argc
    /\ ~UsageError
    /\ stderr' = stderr \o Verbose(Msg("operation", NullName, operation))
    /\ cnt_grand_total' = 0
    /\ IF argcnt = argc
       THEN pc' = "stdin" /\ i' = i
       ELSE pc' = "loop" /\ i' = 1
    /\ UNCHANGED <<argv, ret_pc, err, verbose, argcnt, fname, eol_fname, result,
                   operation, output_format, cnt_eol, tally, file_in, file_out,
                   p_file_in, p_file_out, nl, io, exited, pass, fs0, harness>>

\* no files: set_eol() or scan_eol() is called without arguments, so the
\* parameters of the callee hold indeterminate pointers
StdinCall ==
    /\ pc = "stdin"
    /\ file_in' = stdin
    /\ p_file_in' \in IndeterminatePointers
    /\ nl' = 0
    /\ pass' = [top_at |-> <<>>, nl_at |-> <<>>]
    /\ ret_pc' = "stdin_ret"
    /\ IF operation = EOL_SET_OPERATION
       THEN /\ stderr' = stderr \o Verbose(Msg("setting", <<"stdin">>, output_format))
            /\ file_out' = stdout
            /\ p_file_out' \in IndeterminatePointers
            /\ UNCHANGED tally
            /\ pc' = "set_eol"
       ELSE /\ stderr' = stderr \o Verbose(Msg("scanning", <<"stdin">>, 0))
            /\ cnt_msdos' = ScanTallyReset.msdos
            /\ cnt_mac' = ScanTallyReset.mac
            /\ cnt_unix' = ScanTallyReset.unix
            /\ UNCHANGED <<file_out, p_file_out>>
            /\ pc' = "scan_eol"
    /\ UNCHANGED <<argv, mainLocals, operation, output_format, cnt_eol,
                   cnt_grand_total, io, exited, fs0, harness>>

\* no files: the callee has returned; report and return 0
StdinReturn ==
    /\ pc = "stdin_ret"
    /\ cnt_eol' = nl
    /\ IF operation = EOL_SET_OPERATION
       THEN /\ stderr' = stderr \o Verbose(Msg("processed", <<"stdin">>, cnt_eol'))
            /\ UNCHANGED cnt_grand_total
       ELSE /\ cnt_grand_total' = cnt_grand_total + cnt_eol'
            /\ stderr' = stderr \o ScanReport(<<"stdin">>)
    /\ exited' = <<0>>
    /\ pc' = "exit"
    /\ UNCHANGED <<argv, ret_pc, mainLocals, operation, output_format, tally,
                   file_in, file_out, p_file_in, p_file_out, nl, io, pass, fs0,
                   harness>>

\* an option met again in the file loop: neither if-block is entered
SkipOption ==
    /\ pc = "loop"
    /\ i < argc
    /\ IsOption(argv[i])
    /\ i' = i + 1
    /\ UNCHANGED <<argv, pc, ret_pc, err, verbose, argcnt, fname, eol_fname,
                   result, operation, output_format, cnt_eol, tally,
                   cnt_grand_total, file_in, file_out, p_file_in, p_file_out, nl,
                   io, stderr, exited, pass, fs0, harness>>

\* variant: the temporary output file is opened whatever the operation
OpensOutputAlways == TRUE

\* whether the temporary output file is opened for this file
OpensOutput == operation = EOL_SET_OPERATION

\* variant: a file that cannot be opened ends the run
OpenInput_ReturnOnFailure ==
    /\ pc = "loop"
    /\ i < argc
    /\ Char(argv[i], 1) # "-"
    /\ fname' = argv[i]
    /\ \E o \in fopen(io, argv[i], "rb") :
          /\ io' = o.io
          /\ file_in' = o.ret
          /\ IF o.ret = NULL
             THEN /\ stderr' = Append(stderr, Msg("cannot_open_input", fname', 0))
                  /\ err' = 1
                  /\ i' = i + 1
                  /\ exited' = <<1>>
                  /\ pc' = "exit"
             ELSE /\ UNCHANGED <<stderr, err, i, exited>>
                  /\ pc' = IF OpensOutput THEN "open_out" ELSE "process"
    /\ UNCHANGED <<argv, ret_pc, verbose, argcnt, eol_fname, result, operation,
                   output_format, cnt_eol, tally, cnt_grand_total, file_out,
                   p_file_in, p_file_out, nl, pass, fs0, harness>>

\* a file name: fopen(fname, "rb"); on failure report, err = 1, continue
OpenInput ==
    /\ pc = "loop"
    /\ i < argc
    /\ Char(argv[i], 1) # "-"
    /\ fname' = argv[i]
    /\ \E o \in fopen(io, argv[i], "rb") :
          /\ io' = o.io
          /\ file_in' = o.ret
          /\ IF o.ret = NULL
             THEN /\ stderr' = Append(stderr, Msg("cannot_open_input", fname', 0))
                  /\ err' = 1
                  /\ i' = i + 1
                  /\ pc' = "loop"
             ELSE /\ UNCHANGED <<stderr, err, i>>
                  /\ pc' = IF OpensOutput THEN "open_out" ELSE "process"
    /\ UNCHANGED <<argv, ret_pc, verbose, argcnt, eol_fname, result, operation,
                   output_format, cnt_eol, tally, cnt_grand_total, file_out,
                   p_file_in, p_file_out, nl, exited, pass, fs0, harness>>

\* Set: build the temporary name, fopen(eol_fname, "wb"); on failure
\* report, err = 1, continue
OpenOutput ==
    /\ pc = "open_out"
    /\ eol_fname' = TempName(fname)
    /\ \E o \in fopen(io, eol_fname', "wb") :
          /\ io' = o.io
          /\ file_out' = o.ret
          /\ IF o.ret = NULL
             THEN /\ stderr' = Append(stderr, Msg("cannot_open_temp", eol_fname', 0))
                  /\ err' = 1
                  /\ i' = i + 1
                  /\ pc' = "loop"
             ELSE /\ UNCHANGED <<stderr, err, i>>
                  /\ pc' = "process"
    /\ UNCHANGED <<argv, ret_pc, verbose, argcnt, fname, result, operation,
                   output_format, cnt_eol, tally, cnt_grand_total, file_in,
                   p_file_in, p_file_out, nl, exited, pass, fs0, harness>>

\* a lone '-': the first if-block is skipped, the second one is entered with
\* whatever file_in, file_out, fname and eol_fname hold
LoneDash ==
    /\ pc = "loop"
    /\ i < argc
    /\ Char(argv[i], 1) = "-"
    /\ Char(argv[i], 2) = NUL
    /\ pc' = "process"
    /\ UNCHANGED <<argv, ret_pc, mainLocals, operation, output_format, cnt_eol,
                   tally, cnt_grand_total, file_in, file_out, p_file_in,
                   p_file_out, nl, io, stderr, exited, pass, fs0, harness>>

\* set_eol(file_in, file_out) or scan_eol(file_in) is called
Process ==
    /\ pc = "process"
    /\ p_file_in' = file_in
    /\ nl' = 0
    /\ pass' = [top_at |-> <<>>, nl_at |-> <<>>]
    /\ ret_pc' = "file_ret"
    /\ IF operation = EOL_SET_OPERATION
       THEN /\ stderr' = stderr \o Verbose(Msg("setting", fname, output_format))
            /\ p_file_out' = file_out
            /\ UNCHANGED tally
            /\ pc' = "set_eol"
       ELSE /\ stderr' = stderr \o Verbose(Msg("scanning", fname, 0))
            /\ cnt_msdos' = ScanTallyReset.msdos
            /\ cnt_mac' = ScanTallyReset.mac
            /\ cnt_unix' = ScanTallyReset.unix
            /\ UNCHANGED p_file_out
            /\ pc' = "scan_eol"
    /\ UNCHANGED <<argv, mainLocals, operation, output_format, cnt_eol,
                   cnt_grand_total, file_in, file_out, io, exited, fs0, harness>>

\* the callee has returned: cnt_eol, the grand total, the reports
FileReturn ==
    /\ pc = "file_ret"
    /\ cnt_eol' = nl
    /\ IF operation = EOL_SET_OPERATION
       THEN /\ stderr' = stderr \o Verbose(Msg("processed", fname, cnt_eol'))
            /\ UNCHANGED cnt_grand_total
       ELSE /\ cnt_grand_total' = cnt_grand_total + cnt_eol'
            /\ stderr' = stderr \o ScanReport(fname)
    /\ pc' = "close"
    /\ UNCHANGED <<argv, ret_pc, mainLocals, operation, output_format, tally,
                   file_in, file_out, p_file_in, p_file_out, nl, io, exited, pass,
                   fs0, harness>>

\* the fclose calls of "Close files and rename output"
CloseOutcomes ==
    IF file_in = stdin THEN {Ret(0, io)}
    ELSE UNION {IF ~a.ok \/ operation # EOL_SET_OPERATION \/ file_out = stdout
                THEN {a}
                ELSE fclose(a.io, file_out)
                : a \in fclose(io, file_in)}

CloseFiles ==
    /\ pc = "close"
    /\ \E o \in CloseOutcomes :
          /\ io' = o.io
          /\ IF ~o.ok
             THEN pc' = "aborted" /\ UNCHANGED <<result, i>>
             ELSE IF file_in # stdin /\ operation = EOL_SET_OPERATION
             THEN pc' = "rename" /\ result' = 0 /\ i' = i
             ELSE pc' = "loop" /\ i' = i + 1 /\ UNCHANGED result
    /\ UNCHANGED <<argv, ret_pc, err, verbose, argcnt, fname, eol_fname,
                   operation, output_format, cnt_eol, tally, cnt_grand_total,
                   file_in, file_out, p_file_in, p_file_out, nl, stderr, exited,
                   pass, fs0, harness>>

\* rename(eol_fname, fname) and the report of its failure
Rename ==
    /\ pc = "rename"
    /\ \E o \in rename(io, eol_fname, fname) :
          /\ io' = o.io
          /\ result' = o.ret
          /\ stderr' = IF o.ret # 0
                       THEN stderr \o <<Msg("rename_return", NullName, o.ret),
                                        Msg("cannot_rename", eol_fname, 0)>>
                       ELSE stderr
    /\ i' = i + 1
    /\ pc' = "loop"
    /\ UNCHANGED <<argv, ret_pc, err, verbose, argcnt, fname, eol_fname,
                   operation, output_format, cnt_eol, tally, cnt_grand_total,
                   file_in, file_out, p_file_in, p_file_out, nl, exited, pass,
                   fs0, harness>>

\* after the loop: the grand total, and return err
Finish ==
    /\ pc = "loop"
    /\ i >= argc
    /\ stderr' = IF cnt_grand_total > 0
                 THEN Append(stderr, Msg("grand_total", NullName, cnt_grand_total))
                 ELSE stderr
    /\ exited' = <<err>>
    /\ pc' = "exit"
    /\ UNCHANGED <<argv, ret_pc, mainLocals, operation, output_format, cnt_eol,
                   tally, cnt_grand_total, file_in, file_out, p_file_in,
                   p_file_out, nl, io, pass, fs0, harness>>

\* the paths of the file system main runs on
AllPaths == Files \cup {TempName(p) : p \in Files}

Named(args) == {args[k] : k \in 1..Len(args)} \cap Files

\* the file systems main may start on: a named file holds some content or
\* is absent; no temporary name is in use; files the command line does not
\* name play no part and are absent
InitialFileSystems(args) ==
    {fs \in [AllPaths -> {Absent} \cup {Present(d) : d \in FileContents}] :
        \A p \in AllPaths : p \notin Named(args) => fs[p] = Absent}

\* main is entered: locals and globals hold their initial values
Start ==
    /\ pc = "parse"
    /\ ret_pc = "none"
    /\ i = 1
    /\ err = 0
    /\ verbose = 0
    /\ argcnt = 1
    /\ fname = NullName
    /\ eol_fname = IndeterminateName
    /\ result = 0
    /\ operation = EOL_NO_OPERATION
    /\ output_format = EOL_NO_OUTPUT_FORMAT
    /\ cnt_eol = 0
    /\ cnt_msdos = 0
    /\ cnt_mac = 0
    /\ cnt_unix = 0
    /\ cnt_grand_total = 0
    /\ file_in = NULL
    /\ file_out = NULL
    /\ p_file_in = NULL
    /\ p_file_out = NULL
    /\ nl = 0
    /\ \E fs \in InitialFileSystems(argv) :
          /\ io = [fs |-> fs, files |-> StdFiles, stdin |-> <<>>, stdout |-> <<>>,
                   calls |-> <<>>]
          /\ fs0 = fs
    /\ stderr = <<>>
    /\ exited = <<>>
    /\ pass = [top_at |-> <<>>, nl_at |-> <<>>]
    /\ plan = <<>>
    /\ step = 0
    /\ results = <<>>

\* every command line of up to MaxArgs arguments
Init ==
    /\ argv \in SeqsUpTo(ArgTokens, MaxArgs)
    /\ Start

Next ==
    \/ ParseArg
    \/ Usage
    \/ Begin
    \/ StdinCall
    \/ StdinReturn
    \/ SkipOption
    \/ OpenInput
    \/ OpenOutput
    \/ LoneDash
    \/ Process
    \/ set_eol
    \/ scan_eol
    \/ FileReturn
    \/ CloseFiles
    \/ Rename
    \/ Finish

Spec == Init /\ [][Next]_vars

\* SpecFiles: main() run on the command lines that select an operation and
\* then name one to MaxFiles files (a lone '-' among them)
OperationOptions == {<<"-", "d">>, <<"-", "m">>, <<"-", "u">>, <<"-", "s">>}
FileArgs == Files \cup {<<"-">>}

InitFiles ==
    /\ argv \in {<<o>> \o fl : o \in OperationOptions,
                               fl \in SeqsUpTo(FileArgs, MaxFiles) \ {<<>>}}
    /\ Start

NextFiles ==
    \/ ParseArg
    \/ Begin
    \/ SkipOption
    \/ OpenInput
    \/ OpenOutput
    \/ LoneDash
    \/ Process
    \/ set_eol
    \/ scan_eol
    \/ FileReturn
    \/ CloseFiles
    \/ Rename
    \/ Finish

SpecFiles == InitFiles /\ [][NextFiles]_vars

----------------------------------------------------------------------------
(* SpecPass: set_eol and scan_eol called, as main calls them for a named   *)
(* file, on every input byte sequence up to MaxLen.  A plan is a sequence  *)
(* of passes; each reads the original input ("orig") or what the previous  *)
(* pass wrote ("prev").                                                    *)

PassIn == <<"i">>
PassOut(k) == IF k = 1 THEN <<"o">> ELSE <<"p">>
PassPaths == {PassIn, PassOut(1), PassOut(2)}

SetThenScan == <<[op |-> "set", src |-> "orig"], [op |-> "scan", src |-> "prev"]>>
SetThenSet == <<[op |-> "set", src |-> "orig"], [op |-> "set", src |-> "prev"]>>
SetAndScan == <<[op |-> "set", src |-> "orig"], [op |-> "scan", src |-> "orig"]>>
PassPlans == {SetThenScan, SetThenSet, SetAndScan}

PassSource == IF plan[step].src = "orig" THEN PassIn ELSE PassOut(step - 1)

\* the input is opened, for Set the output too, and the function is called
PassCall ==
    /\ pc = "pass"
    /\ step <= Len(plan)
    /\ \E a \in fopen(io, PassSource, "rb") :
          /\ a.ret # NULL
          /\ file_in' = a.ret
          /\ p_file_in' = a.ret
          /\ IF plan[step].op = "set"
             THEN /\ operation' = EOL_SET_OPERATION
                  /\ \E b \in fopen(a.io, PassOut(step), "wb") :
                        /\ b.ret # NULL
                        /\ file_out' = b.ret
                        /\ p_file_out' = b.ret
                        /\ io' = b.io
                  /\ UNCHANGED tally
                  /\ pc' = "set_eol"
             ELSE /\ operation' = EOL_SCAN_OPERATION
                  /\ io' = a.io
                  /\ cnt_msdos' = ScanTallyReset.msdos
                  /\ cnt_mac' = ScanTallyReset.mac
                  /\ cnt_unix' = ScanTallyReset.unix
                  /\ UNCHANGED <<file_out, p_file_out>>
                  /\ pc' = "scan_eol"
    /\ nl' = 0
    /\ pass' = [top_at |-> <<>>, nl_at |-> <<>>]
    /\ ret_pc' = "pass_ret"
    /\ UNCHANGED <<argv, mainLocals, output_format, cnt_eol, cnt_grand_total,
                   stderr, exited, fs0, harness>>

\* the function has returned: the files are closed and the pass is recorded
PassReturn ==
    /\ pc = "pass_ret"
    /\ cnt_eol' = nl
    /\ \E o \in CloseOutcomes :
          /\ o.ok
          /\ io' = o.io
          /\ results' = Append(results,
                [op |-> plan[step].op,
                 input |-> io.fs[PassSource].data,
                 output |-> IF plan[step].op = "set" THEN o.io.fs[PassOut(step)].data ELSE <<>>,
                 cnt_eol |-> nl, cnt_msdos |-> cnt_msdos, cnt_mac |-> cnt_mac,
                 cnt_unix |-> cnt_unix, top_at |-> pass.top_at, nl_at |-> pass.nl_at])
    /\ step' = step + 1
    /\ pc' = IF step' > Len(plan) THEN "done" ELSE "pass"
    /\ UNCHANGED <<argv, ret_pc, mainLocals, operation, output_format, tally,
                   cnt_grand_total, file_in, file_out, p_file_in, p_file_out, nl,
                   stderr, exited, pass, fs0, plan>>

InitPass ==
    /\ argv = <<>>
    /\ pc = "pass"
    /\ ret_pc = "none"
    /\ i = 1
    /\ err = 0
    /\ verbose = 0
    /\ argcnt = 1
    /\ fname = NullName
    /\ eol_fname = IndeterminateName
    /\ result = 0
    /\ operation = EOL_NO_OPERATION
    /\ output_format \in Formats
    /\ cnt_eol = 0
    /\ cnt_msdos = 0
    /\ cnt_mac = 0
    /\ cnt_unix = 0
    /\ cnt_grand_total = 0
    /\ file_in = NULL
    /\ file_out = NULL
    /\ p_file_in = NULL
    /\ p_file_out = NULL
    /\ nl = 0
    /\ \E d \in Inputs :
          /\ fs0 = [p \in PassPaths |-> IF p = PassIn THEN Present(d) ELSE Absent]
          /\ io = [fs |-> fs0, files |-> StdFiles, stdin |-> <<>>, stdout |-> <<>>,
                   calls |-> <<>>]
    /\ stderr = <<>>
    /\ exited = <<>>
    /\ pass = [top_at |-> <<>>, nl_at |-> <<>>]
    /\ plan \in PassPlans
    /\ step = 1
    /\ results = <<>>

NextPass ==
    \/ PassCall
    \/ set_eol
    \/ scan_eol
    \/ PassReturn

SpecPass == InitPass /\ [][NextPass]_vars

\* SpecPassFair: the same passes, with the program always taking its next
\* step: a running loop iteration, call or return is not postponed forever
SpecPassFair == SpecPass /\ WF_vars(NextPass)

----------------------------------------------------------------------------
(* SpecName: main() run with a Set flag on one existing input file whose   *)
(* path has 1 to MaxPath characters, up to the point where the temporary   *)
(* name is built in eol_fname.  eol_fname holds the characters written     *)
(* from its first element on, the terminator not included; writing past    *)
(* its last element is undefined: the process dies, or goes on with the    *)
(* characters written over what follows the array.                         *)

\* strcpy(dst, src) into an array of size elements
strcpy(size, src) ==
    IF Len(src) + 1 <= size THEN {[ok |-> TRUE, buf |-> src]}
    ELSE {[ok |-> FALSE, buf |-> src], [ok |-> TRUE, buf |-> src]}

\* strcat(dst, src), dst an array of size elements that holds buf
strcat(size, buf, src) ==
    IF Len(buf) + Len(src) + 1 <= size THEN {[ok |-> TRUE, buf |-> buf \o src]}
    ELSE {[ok |-> FALSE, buf |-> buf \o src], [ok |-> TRUE, buf |-> buf \o src]}

\* strcpy(eol_fname, fname)
CopyName ==
    /\ pc = "open_out"
    /\ \E o \in strcpy(sizeof_eol_fname, fname) :
          /\ eol_fname' = o.buf
          /\ pc' = IF o.ok THEN "strcat" ELSE "aborted"
    /\ UNCHANGED <<argv, ret_pc, i, err, verbose, argcnt, fname, result,
                   operation, output_format, cnt_eol, tally, cnt_grand_total,
                   file_in, file_out, p_file_in, p_file_out, nl, io, stderr,
                   exited, pass, fs0, harness>>

\* strcat(eol_fname, eolfextension)
CatName ==
    /\ pc = "strcat"
    /\ \E o \in strcat(sizeof_eol_fname, eol_fname, eolfextension) :
          /\ eol_fname' = o.buf
          /\ pc' = IF o.ok THEN "named" ELSE "aborted"
    /\ UNCHANGED <<argv, ret_pc, i, err, verbose, argcnt, fname, result,
                   operation, output_format, cnt_eol, tally, cnt_grand_total,
                   file_in, file_out, p_file_in, p_file_out, nl, io, stderr,
                   exited, pass, fs0, harness>>

\* the path of n characters
PathOfLen(n) == [k \in 1..n |-> "p"]

InitName ==
    /\ \E o \in {<<"-", "d">>, <<"-", "m">>, <<"-", "u">>}, n \in 1..MaxPath :
          argv = <<o, PathOfLen(n)>>
    /\ pc = "parse"
    /\ ret_pc = "none"
    /\ i = 1
    /\ err = 0
    /\ verbose = 0
    /\ argcnt = 1
    /\ fname = NullName
    /\ eol_fname = IndeterminateName
    /\ result = 0
    /\ operation = EOL_NO_OPERATION
    /\ output_format = EOL_NO_OUTPUT_FORMAT
    /\ cnt_eol = 0
    /\ cnt_msdos = 0
    /\ cnt_mac = 0
    /\ cnt_unix = 0
    /\ cnt_grand_total = 0
    /\ file_in = NULL
    /\ file_out = NULL
    /\ p_file_in = NULL
    /\ p_file_out = NULL
    /\ nl = 0
    /\ fs0 = (argv[2] :> Present(<<ch_LF>>))
    /\ io = [fs |-> fs0, files |-> StdFiles, stdin |-> <<>>, stdout |-> <<>>,
             calls |-> <<>>]
    /\ stderr = <<>>
    /\ exited = <<>>
    /\ pass = [top_at |-> <<>>, nl_at |-> <<>>]
    /\ plan = <<>>
    /\ step = 0
    /\ results = <<>>

NextName ==
    \/ ParseArg
    \/ Begin
    \/ SkipOption
    \/ OpenInput
    \/ CopyName
    \/ CatName
    \/ Finish

SpecName == InitName /\ [][NextName]_vars

----------------------------------------------------------------------------
(* What the specification says of a byte sequence, by position.            *)

\* the bytes of a target format
FormatBytes(F) ==
    CASE F = EOL_UNIX_OUTPUT_FORMAT -> <<ch_LF>>
      [] F = EOL_MSDOS_OUTPUT_FORMAT -> <<ch_CR, ch_LF>>
      [] F = EOL_MAC_OUTPUT_FORMAT -> <<ch_CR>>

\* a CR immediately followed by LF starts at k
CrLfAt(d, k) == k < Len(d) /\ d[k] = ch_CR /\ d[k + 1] = ch_LF
\* a CR not immediately followed by LF
BareCrAt(d, k) == d[k] = ch_CR /\ ~CrLfAt(d, k)
\* an LF not immediately preceded by CR
BareLfAt(d, k) == d[k] = ch_LF /\ ~(k > 1 /\ CrLfAt(d, k - 1))

NumCrLf(d) == Cardinality({k \in 1..Len(d) : CrLfAt(d, k)})
NumBareCr(d) == Cardinality({k \in 1..Len(d) : BareCrAt(d, k)})
NumBareLf(d) == Cardinality({k \in 1..Len(d) : BareLfAt(d, k)})
NumLineEndings(d) == NumCrLf(d) + NumBareCr(d) + NumBareLf(d)

\* what position k contributes to the rewritten sequence
Rewritten1(d, k, F) ==
    IF CrLfAt(d, k) \/ BareCrAt(d, k) \/ BareLfAt(d, k) THEN FormatBytes(F)
    ELSE IF d[k] = ch_LF THEN <<>>
    ELSE <<d[k]>>

RECURSIVE RewrittenUpTo(_, _, _)
RewrittenUpTo(d, k, F) ==
    IF k = 0 THEN <<>> ELSE RewrittenUpTo(d, k - 1, F) \o Rewritten1(d, k, F)

\* the input with every line ending replaced by the bytes of F
Rewritten(d, F) == RewrittenUpTo(d, Len(d), F)

SetResults == {k \in 1..Len(results) : results[k].op = "set"}
ScanResults == {k \in 1..Len(results) : results[k].op = "scan"}

----------------------------------------------------------------------------
(* C1: for every input and every target format, set_eol writes the input   *)
(* with each line ending (CR LF as one, else a single CR or LF) replaced   *)
(* by the format's bytes and every other byte copied in order, and returns *)
(* the number of those line endings.                                       *)
C1_SetRewrites ==
    \A k \in SetResults :
        /\ results[k].output = Rewritten(results[k].input, output_format)
        /\ results[k].cnt_eol = NumLineEndings(results[k].input)

\* a finished Set pass over an input with a CR LF pair, a bare ending and
\* ordinary bytes, whose output differs from its input
C1_Witness ==
    \E k \in SetResults :
        /\ NumCrLf(results[k].input) > 0
        /\ NumBareCr(results[k].input) + NumBareLf(results[k].input) > 0
        /\ \E j \in 1..Len(results[k].input) : results[k].input[j] \notin {ch_CR, ch_LF}
        /\ results[k].output # results[k].input

(* C2: Scan counts every CR not followed by LF as Mac, every LF not        *)
(* preceded by CR as Unix and every CR followed by LF as MsDos, and        *)
(* nothing else.                                                           *)
C2_ScanCounts ==
    \A k \in ScanResults :
        /\ results[k].cnt_mac = NumBareCr(results[k].input)
        /\ results[k].cnt_unix = NumBareLf(results[k].input)
        /\ results[k].cnt_msdos = NumCrLf(results[k].input)

(* C3: Set with format F then Scan of what Set wrote reports every line    *)
(* ending in category F, none in the other two, and a total equal to the   *)
(* count Set returned.                                                     *)
C3_RoundTrip ==
    (plan = SetThenScan /\ Len(results) = 2) =>
        /\ results[2].cnt_eol = results[1].cnt_eol
        /\ results[2].cnt_unix =
              (IF output_format = EOL_UNIX_OUTPUT_FORMAT THEN results[1].cnt_eol ELSE 0)
        /\ results[2].cnt_msdos =
              (IF output_format = EOL_MSDOS_OUTPUT_FORMAT THEN results[1].cnt_eol ELSE 0)
        /\ results[2].cnt_mac =
              (IF output_format = EOL_MAC_OUTPUT_FORMAT THEN results[1].cnt_eol ELSE 0)

(* C5: set_eol with format F applied to the output of set_eol with F       *)
(* yields the same bytes as applying it once.                              *)
C5_SetIdempotent ==
    (plan = SetThenSet /\ Len(results) = 2) =>
        /\ results[2].input = results[1].output
        /\ results[2].output = results[1].output

\* both Set passes are done, the first one changed its input and wrote
\* line endings
C5_Witness ==
    /\ plan = SetThenSet
    /\ Len(results) = 2
    /\ results[1].output # results[1].input
    /\ results[1].cnt_eol >= 2
    /\ results[2].cnt_eol >= 2

(* C6: in Scan, the two bytes of a CR immediately followed by LF cause     *)
(* exactly one increment of the total between them, whatever surrounds     *)
(* the pair.                                                               *)
C6_CrLfCountedOnce ==
    \A k \in ScanResults :
        \A p \in 1..Len(results[k].input) :
            CrLfAt(results[k].input, p) =>
                Cardinality({j \in 1..Len(results[k].nl_at) :
                                results[k].nl_at[j] \in {p, p + 1}}) = 1

\* a finished Scan of an input where a CR LF pair directly follows a CR
C6_Witness ==
    \E k \in ScanResults :
        \E p \in 2..Len(results[k].input) :
            /\ CrLfAt(results[k].input, p)
            /\ results[k].input[p - 1] = ch_CR

----------------------------------------------------------------------------
(* Claims about main(), checked under Spec.                                *)

Said(m) == {k \in 1..Len(stderr) : stderr[k].msg = m}
Called(c, ok) == {k \in 1..Len(io.calls) : io.calls[k].call = c /\ io.calls[k].ok = ok}

(* C4: for every source scanned in one run, the total reported for it      *)
(* (cnt_eol once scan_eol has returned) equals cnt_msdos + cnt_mac +       *)
(* cnt_unix of that source; nothing of an earlier source is left in them.  *)
C4_TotalIsSum ==
    (operation = EOL_SCAN_OPERATION /\ pc \in {"loop", "process", "close", "exit"}) =>
        cnt_eol = cnt_msdos + cnt_mac + cnt_unix

\* a second source has been scanned, and both had line endings
C4_Witness ==
    /\ operation = EOL_SCAN_OPERATION
    /\ pc = "close"
    /\ cnt_eol > 0
    /\ cnt_grand_total > cnt_eol

(* C7: Set on named files (no temporary name in use at the start): in     *)
(* every reachable state each original path holds its complete original    *)
(* content or the complete rewritten output.                               *)
C7_OriginalOrRewritten ==
    \A p \in Files :
        \/ io.fs[p] = fs0[p]
        \/ /\ fs0[p].exists
           /\ io.fs[p] = Present(Rewritten(fs0[p].data, output_format))

\* C7, the step it rests on: a named file changes only by the rename of
\* its own closed temporary file
C7_OnlyByRename ==
    \A p \in Files :
        io'.fs[p] # io.fs[p] =>
            /\ pc = "rename"
            /\ fname = p
            /\ eol_fname = TempName(p)
            /\ result' = 0
            /\ io'.fs[p] = io.fs[TempName(p)]
            /\ \A h \in DOMAIN io.files :
                  io.files[h].path = TempName(p) => ~io.files[h].open

C7_Step == [][C7_OnlyByRename]_vars

(* C8: with Scan as the operation no output or temporary file is opened or *)
(* created, nothing is renamed or removed, and every file holds what it    *)
(* held before.                                                            *)
C8_ScanLeavesFiles ==
    (operation = EOL_SCAN_OPERATION /\ pc # "parse") =>
        /\ io.fs = fs0
        /\ \A k \in 1..Len(io.calls) :
              /\ io.calls[k].call # "rename"
              /\ io.calls[k].call = "fopen" => io.calls[k].mode = "rb"
        /\ io.stdout = <<>>

\* a Scan run over two files that has returned, having counted line endings
C8_Witness ==
    /\ operation = EOL_SCAN_OPERATION
    /\ exited # <<>>
    /\ Cardinality(Called("fopen", TRUE)) = 2
    /\ cnt_grand_total > 0

(* C9: the exit code is the number of files that failed (input or          *)
(* temporary output could not be opened): 0 when none, k when k failed;    *)
(* only the usage error returns a fixed 1.                                 *)
C9_ExitCodeCountsFailures ==
    (exited # <<>> /\ Said("usage") = {}) =>
        exited[1] = Cardinality(Said("cannot_open_input") \cup Said("cannot_open_temp"))

(* C10: when the rename of the temporary file onto the original fails, the *)
(* failure is reported, the temporary file stays, the next argument is     *)
(* processed, and the error count is raised so the exit code is nonzero.   *)
C10_RenameFailureCounted ==
    (exited # <<>> /\ \E k \in Called("rename", FALSE) :
                          io.calls[k].path \in {TempName(p) : p \in Files}) =>
        /\ Said("cannot_rename") # {}
        /\ exited[1] # 0

----------------------------------------------------------------------------
(* Claims about the calls main() makes and the handles it owns.            *)

\* the FILE objects fopen returned that are still open
OpenFiles == {h \in DOMAIN io.files : io.files[h].kind = "file" /\ io.files[h].open}

\* set_eol or scan_eol is running, called from the place that returns to r
Running(r) == pc \in {"set_eol", "scan_eol"} /\ ret_pc = r

(* C11: with no file argument and a valid operation the pass reads from    *)
(* standard input (Set writes to standard output), no file is opened and   *)
(* nothing is renamed; with a file argument standard input is never read   *)
(* and standard output never written.                                      *)
C11_StdinOnly ==
    /\ Running("stdin_ret") =>
          /\ p_file_in = stdin
          /\ operation = EOL_SET_OPERATION => p_file_out = stdout
    /\ (argcnt = argc /\ pc # "parse") => io.calls = <<>>
    /\ (argcnt < argc /\ pc # "parse") => io.stdin = <<>> /\ io.stdout = <<>>

(* C12: set_eol / scan_eol is called for a file argument only with an      *)
(* input handle that is open and unread (for Set, an open output handle    *)
(* too), and the handles main closes afterwards are open ones: never a     *)
(* null, closed or already processed handle, a lone '-' included.          *)
C12_OpenHandleOnly ==
    /\ Running("file_ret") =>
          /\ Valid(io, p_file_in)
          /\ io.files[p_file_in].path = fname
          /\ operation = EOL_SET_OPERATION => Valid(io, p_file_out)
    /\ pc = "close" =>
          /\ Valid(io, file_in)
          /\ operation = EOL_SET_OPERATION => Valid(io, file_out)

(* C13: whenever the loop is about to take the next argument (or to end),  *)
(* every handle opened for the arguments before it has been closed.        *)
C13_ClosedBeforeNext ==
    pc \in {"loop", "exit"} => OpenFiles = {}

\* a failure reported for the file p itself: its input, its temporary
\* output or its rename
OwnFailure(p) ==
    \E k \in 1..Len(stderr) :
        /\ stderr[k].msg \in {"cannot_open_input", "cannot_open_temp", "cannot_rename"}
        /\ stderr[k].file \in {p, TempName(p)}

\* the step that reports an open failure
OpenFailureStep ==
    /\ Len(stderr') = Len(stderr) + 1
    /\ stderr'[Len(stderr')].msg \in {"cannot_open_input", "cannot_open_temp"}

\* main has returned from the file loop: every named file that exists and
\* met no failure of its own is processed as it is when named alone
ProcessedAlone ==
    (pc = "exit" /\ Said("usage") = {} /\ argcnt < argc) =>
        \A p \in Named(argv) :
            (fs0[p].exists /\ ~OwnFailure(p)) =>
                IF operation = EOL_SET_OPERATION
                THEN io.fs[p] = Present(Rewritten(fs0[p].data, output_format))
                ELSE \E k \in Said("found_total") :
                        /\ stderr[k].file = p
                        /\ stderr[k].n = NumLineEndings(fs0[p].data)

\* a failed open is reported, sets err, changes no file, runs no pass and
\* goes on with the next argument
ContinuesAfterFailure ==
    OpenFailureStep =>
        /\ err' = 1
        /\ io'.fs = io.fs
        /\ pc' = "loop"
        /\ i' = i + 1
        /\ exited' = <<>>

(* C14: a file whose input or temporary output cannot be opened is         *)
(* reported and marked in err, no pass is run for it, the loop goes on     *)
(* with the next argument, and every other file is processed as it is      *)
(* without the failing one.                                                *)
C14_ErrorDoesNotAbort == [][ContinuesAfterFailure /\ ProcessedAlone']_vars

\* a Set run that has returned 1: an argument could not be opened and a
\* later one was rewritten
C14_Witness ==
    /\ exited = <<1>>
    /\ operation = EOL_SET_OPERATION
    /\ \E j, k \in 1..Len(argv) :
          /\ j < k
          /\ argv[j] \in Files
          /\ argv[k] \in Files
          /\ argv[j] # argv[k]
          /\ \E m \in Said("cannot_open_input") : stderr[m].file = argv[j]
          /\ ~OwnFailure(argv[k])
          /\ io.fs[argv[k]] # fs0[argv[k]]
          /\ io.fs[argv[k]] = Present(Rewritten(fs0[argv[k]].data, output_format))

----------------------------------------------------------------------------
(* Claims about the command line.                                          *)

SetFlags == {"d", "D", "m", "M", "u", "U"}
ScanFlags == {"s", "S"}
VerboseFlags == {"v", "V"}

\* the options of a command line, in order
RECURSIVE Options(_)
Options(args) ==
    IF args = <<>> THEN <<>>
    ELSE (IF Len(Head(args)) >= 2 /\ Head(args)[1] = "-" THEN <<Head(args)[2]>> ELSE <<>>)
         \o Options(Tail(args))

\* the command line is in error: an option that is none of d, m, u, s, v,
\* or no option that selects an operation
UsageCase(args) ==
    LET o == Options(args) IN
    \/ \E k \in 1..Len(o) : o[k] \notin SetFlags \cup ScanFlags \cup VerboseFlags
    \/ \A k \in 1..Len(o) : o[k] \notin SetFlags \cup ScanFlags

(* C15: on a command line with an option other than d, m, u, s, v, or      *)
(* without an operation, main prints the usage message and returns 1; no   *)
(* file is opened, read, written or renamed and neither set_eol nor        *)
(* scan_eol is called, whatever files are named and wherever the option    *)
(* stands.                                                                 *)
C15_UsageIsFatal ==
    UsageCase(argv) =>
        /\ pc \in {"parse", "exit"}
        /\ io.calls = <<>>
        /\ io.fs = fs0
        /\ io.stdin = <<>>
        /\ io.stdout = <<>>
        /\ pass = [top_at |-> <<>>, nl_at |-> <<>>]
        /\ pc = "exit" => (exited = <<1>> /\ Cardinality(Said("usage")) = 1
                           /\ Len(stderr) = 1)

\* main has returned 1 on a command line that names an existing file and
\* a valid operation before the unknown option
C15_Witness ==
    /\ exited = <<1>>
    /\ \E j, k, m \in 1..Len(argv) :
          /\ j < m
          /\ k < m
          /\ argv[j] \in Files
          /\ fs0[argv[j]].exists
          /\ argv[k] = <<"-", "d">>
          /\ argv[m] = <<"-", "x">>

\* the last option of o that is in the set fl (<<>> when there is none)
RECURSIVE LastOf(_, _)
LastOf(o, fl) ==
    IF o = <<>> THEN <<>>
    ELSE IF o[Len(o)] \in fl THEN <<o[Len(o)]>>
    ELSE LastOf(SubSeq(o, 1, Len(o) - 1), fl)

\* the format a Set flag names
FlagFormat(c) ==
    CASE c \in {"d", "D"} -> EOL_MSDOS_OUTPUT_FORMAT
      [] c \in {"m", "M"} -> EOL_MAC_OUTPUT_FORMAT
      [] c \in {"u", "U"} -> EOL_UNIX_OUTPUT_FORMAT

(* C17: once a valid command line is parsed one operation is active, the   *)
(* one of the last operation flag, and with Set the format of the last of  *)
(* the -d/-m/-u flags; both stay as they are for every file, wherever the  *)
(* flags stand among the file arguments.                                   *)
C17_LastFlagWins ==
    (~UsageCase(argv) /\ (pc # "parse" \/ i >= argc)) =>
        LET op == LastOf(Options(argv), SetFlags \cup ScanFlags)
            fm == LastOf(Options(argv), SetFlags)
        IN  /\ operation \in {EOL_SET_OPERATION, EOL_SCAN_OPERATION}
            /\ operation = EOL_SET_OPERATION <=> op[1] \in SetFlags
            /\ operation = EOL_SET_OPERATION => output_format = FlagFormat(fm[1])

\* set_eol runs on a file that stands between two different format flags,
\* with the format of the later one
C17_Witness ==
    /\ pc = "set_eol"
    /\ ret_pc = "file_ret"
    /\ pass.top_at # <<>>
    /\ argv = <<<<"-", "d">>, fname, <<"-", "m">>>>
    /\ output_format = EOL_MAC_OUTPUT_FORMAT

----------------------------------------------------------------------------
(* Claims about the grand total.                                           *)

\* the sum of the totals reported per source, over the first k messages
RECURSIVE SumOfTotals(_)
SumOfTotals(k) ==
    IF k = 0 THEN 0
    ELSE SumOfTotals(k - 1) + (IF stderr[k].msg = "found_total" THEN stderr[k].n ELSE 0)

(* C16: when a Scan run ends, over named files or over standard input,     *)
(* cnt_grand_total is the sum of the totals reported per source, and the   *)
(* grand-total line has been written once if that sum is not zero and not  *)
(* at all if it is zero.                                                   *)
C16_GrandTotalOnce ==
    (exited # <<>> /\ operation = EOL_SCAN_OPERATION /\ Said("usage") = {}) =>
        /\ cnt_grand_total = SumOfTotals(Len(stderr))
        /\ Cardinality(Said("grand_total")) =
              (IF SumOfTotals(Len(stderr)) > 0 THEN 1 ELSE 0)
        /\ \A k \in Said("grand_total") :
              k = Len(stderr) /\ stderr[k].n = SumOfTotals(Len(stderr))

\* C16 for named files only
GrandTotalOfFiles == argcnt < argc => C16_GrandTotalOnce

----------------------------------------------------------------------------
(* Claims about the read loops, checked on the passes of SpecPass.         *)

\* the positions of d other than the LF of a CR LF pair, in order
RECURSIVE TopPositions(_, _)
TopPositions(d, k) ==
    IF k = 0 THEN <<>>
    ELSE TopPositions(d, k - 1)
         \o (IF k > 1 /\ CrLfAt(d, k - 1) THEN <<>> ELSE <<k>>)

(* C18: in Scan a byte read after a CR that is neither LF nor end-of-file  *)
(* is pushed back, so every input byte other than the LF of a CR LF pair   *)
(* is read at the top of the loop exactly once, in order, and none is      *)
(* skipped.                                                                *)
C18_ScanExaminesEveryByte ==
    \A k \in ScanResults :
        results[k].top_at = TopPositions(results[k].input, Len(results[k].input))

\* the same of Set, which does push the byte back
SetExaminesEveryByte ==
    \A k \in SetResults :
        results[k].top_at = TopPositions(results[k].input, Len(results[k].input))

\* a finished pass over an input that ends in CR: the CR was counted, Scan
\* counted it as Macintosh, Set wrote the format's bytes for it last
TrailingCR ==
    \A k \in 1..Len(results) :
        LET d == results[k].input
            fb == FormatBytes(output_format)
            out == results[k].output
        IN  (d # <<>> /\ d[Len(d)] = ch_CR) =>
               /\ \E j \in 1..Len(results[k].nl_at) : results[k].nl_at[j] = Len(d)
               /\ results[k].op = "scan" => results[k].cnt_mac = NumBareCr(d)
               /\ results[k].op = "set" =>
                     /\ Len(out) >= Len(fb)
                     /\ SubSeq(out, Len(out) - Len(fb) + 1, Len(out)) = fb

\* no byte is read at the top of the loop twice
ReadOnce ==
    \A j, k \in 1..Len(pass.top_at) : j # k => pass.top_at[j] # pass.top_at[k]

(* C19: set_eol and scan_eol return for every finite input, no byte being  *)
(* read again more than once; for an input that ends in CR, Scan counts    *)
(* that CR as Macintosh and Set has written the format's bytes for it.     *)
C19_TerminatesTrailingCR == <>(pc = "done") /\ [](ReadOnce /\ TrailingCR)

(* C20: for every input and every format, the count set_eol returns equals *)
(* the total scan_eol returns on the same input.                           *)
C20_SetAndScanAgree ==
    (plan = SetAndScan /\ Len(results) = 2) =>
        /\ results[1].input = results[2].input
        /\ results[1].cnt_eol = results[2].cnt_eol

----------------------------------------------------------------------------
(* Claims about the temporary name, checked under SpecName.                *)

(* C21: for every input file opened in Set mode, the temporary name (the   *)
(* path, the 14 characters of the suffix and the terminator) fits in       *)
(* eol_fname: length(path) + 14 + 1 <= 512, and nothing is written past    *)
(* the array.                                                              *)
C21_TempNameFits ==
    /\ pc = "open_out" => Len(fname) + Len(eolfextension) + 1 <= sizeof_eol_fname
    /\ Len(eol_fname) + 1 <= sizeof_eol_fname

====
